---- MODULE Spec2Model ----
(***************************************************************************)
(* A model of sniprun's launcher (src/src/launcher.rs) and of the          *)
(* Python3_original interpreter (src/src/interpreters/Python3_original.rs).*)
(*                                                                         *)
(* Rust Strings whose characters matter (code, import lines, the file at   *)
(* filepath) are sequences of one-character strings; Strings that are only *)
(* compared as a whole (filetype, interpreter names) are TLA+ strings.     *)
(*                                                                         *)
(* The module holds several specifications over the same variables: Spec   *)
(* (the launcher), FetchSpec (fetch_code), BoilerSpec (the generated       *)
(* program and what python3 makes of it), ExecSpec (execute) and MainSpec  *)
(* with its fair version FairMainSpec (the event loop of src/src/main.rs   *)
(* and its worker threads).                                                *)
(***************************************************************************)
EXTENDS Integers, Sequences, FiniteSets, TLC

VARIABLES
    registry,   \* the interpreter types iter_types! enumerates, in order
    data,       \* the DataHolder of the Launcher
    file,       \* the file at data.filepath: <<TRUE, contents>>, or <<FALSE, "">> when it cannot be opened
    selection,  \* what Launcher::select returned
    inter,      \* the interpreter instance: <<>> before new_with_level, else <<instance>>
    result,     \* what select_and_run / fetch_code returned
    pc,         \* position of the caller
    proc,       \* the python3 process of execute: <<>> before it ran, else <<outcome>>
    handled,    \* the number of events the event loop has received
    loop,       \* position of the event loop within its handler
    workers,    \* the threads spawned for Run events, in order of spawning
    interpreter_data, \* the InterpreterData behind event_handler.interpreter_data
    guards,     \* for each Mutex, the threads holding its guard (none or one)
    cache       \* the directory data.work_dir and what it holds

\* the variables of the event loop and of the external process
mainVars == <<proc, handled, loop, workers, interpreter_data, guards, cache>>

vars == <<registry, data, file, selection, inter, result, pc, mainVars>>

-----------------------------------------------------------------------------
(* Bounds of the model *)

\* the registry holds at most this many interpreter types
MaxInterpreters == 2
\* the file at filepath has at most this many lines
MaxFileLines == 2

-----------------------------------------------------------------------------
(* SupportLevel: the ordered capability levels *)

Unsupported == 0
Line == 1
Bloc == 2
File == 3
Import == 4
Selected == 5

\* the levels an interpreter type declares as its max_support_level
DeclaredLevels == {Line, Bloc, Import}
\* the levels an instance can be run at
AllLevels == {Unsupported, Line, Bloc, File, Import, Selected}

-----------------------------------------------------------------------------
(* Option and Result values *)

None == <<>>
Some(name, level) == <<name, level>>

OkUnit == <<"Ok">>
Ok(v) == <<"Ok", v>>
Err(kind, msg) == <<"Err", kind, msg>>
NoResult == <<"NoResult">>

IsErr(r) == r[1] = "Err"
IsCustomError(r) == IsErr(r) /\ r[2] = "CustomError"

-----------------------------------------------------------------------------
(* The registry: what iter_types! enumerates *)

InterpreterNames == <<"InterpA", "InterpB", "InterpC", "InterpD">>
LanguageSets == {{"python"}, {"rust"}, {"python", "rust"}}
Filetypes == {"", "python", "rust", "lua"}

\* an interpreter type: get_name, get_supported_languages,
\* get_max_support_level, default_for_filetype
InterpreterType(i) ==
    [name : {InterpreterNames[i]},
     languages : LanguageSets,
     max_support_level : DeclaredLevels,
     default_for_filetype : BOOLEAN]

RECURSIVE Registries(_)
Registries(n) ==
    IF n = 0 THEN {<<>>}
    ELSE {Append(r, t) : r \in Registries(n - 1), t \in InterpreterType(n)}

AllRegistries == UNION {Registries(n) : n \in 0..MaxInterpreters}

RegisteredNames == {InterpreterNames[i] : i \in 1..MaxInterpreters}

-----------------------------------------------------------------------------
(* Rust's str operations, on sequences of characters *)

Whitespace == {" ", "\t", "\n", "\r"}

Last(q) == q[Len(q)]
Front(q) == SubSeq(q, 1, Len(q) - 1)
DropFirst(s, n) == SubSeq(s, n + 1, Len(s))

\* sub occurs in s at position i
OccursAt(s, sub, i) ==
    /\ i + Len(sub) - 1 <= Len(s)
    /\ \A j \in 1..Len(sub) : s[i + j - 1] = sub[j]

\* s.contains(sub)
Contains(s, sub) == \E i \in 1..(Len(s) - Len(sub) + 1) : OccursAt(s, sub, i)

\* s.replace(from, to), from not empty
RECURSIVE Replace(_, _, _)
Replace(s, from, to) ==
    IF s = <<>> THEN <<>>
    ELSE IF OccursAt(s, from, 1)
         THEN to \o Replace(DropFirst(s, Len(from)), from, to)
         ELSE <<s[1]>> \o Replace(Tail(s), from, to)

\* s.replace(&[chars][..], "")
RemoveChars(s, chars) == SelectSeq(s, LAMBDA c : c \notin chars)

\* s.split(sep) for a one-character sep: the pieces, empty ones included
RECURSIVE Split(_, _)
Split(s, sep) ==
    IF \A i \in 1..Len(s) : s[i] # sep
    THEN <<s>>
    ELSE LET i == CHOOSE k \in 1..Len(s) :
                      s[k] = sep /\ \A j \in 1..(k - 1) : s[j] # sep
         IN  <<SubSeq(s, 1, i - 1)>> \o Split(DropFirst(s, i), sep)

\* s.trim()
RECURSIVE TrimStart(_)
TrimStart(s) ==
    IF s # <<>> /\ s[1] \in Whitespace THEN TrimStart(Tail(s)) ELSE s
RECURSIVE TrimEnd(_)
TrimEnd(s) ==
    IF s # <<>> /\ Last(s) \in Whitespace THEN TrimEnd(Front(s)) ELSE s
Trim(s) == TrimEnd(TrimStart(s))

\* a line of s.lines() without the "\r" that may end it
StripCr(l) == IF l # <<>> /\ Last(l) = "\r" THEN Front(l) ELSE l

\* s.lines(): the lines of s; a final line terminator starts no further line
Lines(s) ==
    IF s = <<>> THEN <<>>
    ELSE LET parts == Split(s, "\n")
             kept == IF Last(parts) = <<>> THEN Front(parts) ELSE parts
         IN  [i \in 1..Len(kept) |-> StripCr(kept[i])]

\* the strings of q joined by sep
RECURSIVE Join(_, _)
Join(q, sep) ==
    IF q = <<>> THEN <<>>
    ELSE IF Len(q) = 1 THEN q[1]
         ELSE q[1] \o sep \o Join(Tail(q), sep)

-----------------------------------------------------------------------------
(* DataHolder *)

EmptyString == <<>>

\* DataHolder::new(): every String field empty, no selected interpreter
DataHolderNew ==
    [filetype |-> "",
     current_line |-> EmptyString,
     current_bloc |-> EmptyString,
     selected_interpreters |-> {}]

-----------------------------------------------------------------------------
(* Launcher::select *)

\* The scan body with one slip, named by slip; SelectBody (below) is the body
\* without any. The properties of select are checked to tell them apart.
SelectBodyWithSlip(st, Current, d, slip) ==
    IF ~st.skip_all /\ (slip = "AnyFiletype" \/ d.filetype \in Current.languages)
    THEN LET s1 == IF Current.max_support_level >
                          (IF slip = "LastWins" THEN Unsupported ELSE st.max_level_support)
                   THEN [st EXCEPT !.max_level_support = Current.max_support_level,
                                   !.name_best_interpreter =
                                       IF slip = "KeepsName"
                                       THEN st.name_best_interpreter
                                       ELSE Current.name]
                   ELSE st
             s2 == IF Current.name \in d.selected_interpreters
                   THEN [s1 EXCEPT !.max_level_support = Selected,
                                   !.name_best_interpreter = Current.name,
                                   !.skip_all = TRUE]
                   ELSE s1
             s3 == IF /\ Current.default_for_filetype
                      /\ (slip = "DefaultNeedsLevel"
                            => Current.max_support_level >= s2.max_level_support)
                   THEN [s2 EXCEPT !.max_level_support =
                                       IF slip = "DefaultKeepsLevel"
                                       THEN s2.max_level_support
                                       ELSE Current.max_support_level,
                                   !.name_best_interpreter = Current.name,
                                   !.skip_all = TRUE]
                   ELSE s2
         IN  s3
    ELSE st

\* slip: a declared default is adopted only when it is at least as capable
SelectBody_DefaultNeedsLevel(st, Current, d) ==
    SelectBodyWithSlip(st, Current, d, "DefaultNeedsLevel")

\* slip: a declared default takes the name but keeps the level reached so far
SelectBody_DefaultKeepsLevel(st, Current, d) ==
    SelectBodyWithSlip(st, Current, d, "DefaultKeepsLevel")

\* slip: the supported languages are not consulted
SelectBody_AnyFiletype(st, Current, d) ==
    SelectBodyWithSlip(st, Current, d, "AnyFiletype")

\* slip: a more capable interpreter raises the level but does not take the name
SelectBody_KeepsName(st, Current, d) ==
    SelectBodyWithSlip(st, Current, d, "KeepsName")

\* slip: every supporting interpreter replaces the best one so far
SelectBody_LastWins(st, Current, d) ==
    SelectBodyWithSlip(st, Current, d, "LastWins")

\* the body iter_types! repeats for one interpreter type (Current)
SelectBody(st, Current, d) ==
    IF ~st.skip_all /\ d.filetype \in Current.languages
    THEN LET s1 == IF Current.max_support_level > st.max_level_support
                   THEN [st EXCEPT !.max_level_support = Current.max_support_level,
                                   !.name_best_interpreter = Current.name]
                   ELSE st
             s2 == IF Current.name \in d.selected_interpreters
                   THEN [s1 EXCEPT !.max_level_support = Selected,
                                   !.name_best_interpreter = Current.name,
                                   !.skip_all = TRUE]
                   ELSE s1
             s3 == IF Current.default_for_filetype
                   THEN [s2 EXCEPT !.max_level_support = Current.max_support_level,
                                   !.name_best_interpreter = Current.name,
                                   !.skip_all = TRUE]
                   ELSE s2
         IN  s3
    ELSE st

\* the locals of select before the scan
SelectStart ==
    [max_level_support |-> Unsupported,
     name_best_interpreter |-> "Generic",
     skip_all |-> FALSE]

\* the locals of select after the first k interpreter types were scanned
RECURSIVE SelectScan(_, _, _)
SelectScan(reg, d, k) ==
    IF k = 0 THEN SelectStart
    ELSE SelectBody(SelectScan(reg, d, k - 1), reg[k], d)

\* slip: the empty filetype is not told apart
select_NoFiletypeTest(reg, d) ==
    LET st == SelectScan(reg, d, Len(reg))
    IN  Some(st.name_best_interpreter, st.max_level_support)

select(reg, d) ==
    IF d.filetype = ""
    THEN None
    ELSE LET st == SelectScan(reg, d, Len(reg))
         IN  Some(st.name_best_interpreter, st.max_level_support)

-----------------------------------------------------------------------------
(* Interpreter instances *)

\* Current::new_with_level(data, level)
new_with_level(name, d, level) ==
    [name |-> name,
     support_level |-> level,
     data |-> d,
     code |-> EmptyString,
     imports |-> EmptyString]

-----------------------------------------------------------------------------
(* Launcher::select_and_run *)

\* the positions in the registry of the types called name
TypesNamed(reg, name) == {i \in 1..Len(reg) : reg[i].name = name}

\* the first type iter_types! reaches whose get_name() is name
FirstNamed(reg, name) ==
    CHOOSE i \in TypesNamed(reg, name) : \A j \in TypesNamed(reg, name) : i <= j

\* select_and_run up to the call of inter.run(): the instance it creates
\* (<<>> when it creates none) and the error it returns without running
Launch(reg, d) ==
    LET sel == select(reg, d)
    IN  IF sel # None
        THEN IF TypesNamed(reg, sel[1]) # {}
             THEN [inter |-> <<new_with_level(reg[FirstNamed(reg, sel[1])].name, d, sel[2])>>,
                   result |-> NoResult]
             ELSE [inter |-> <<>>,
                   result |-> Err("CustomError", "could not find/run the selected interpreter")]
        ELSE [inter |-> <<>>,
              result |-> Err("CustomError", "No filetype set for current file")]

-----------------------------------------------------------------------------
(* Python3_original: import discovery and fetch_code *)

ImportSpace == <<"i", "m", "p", "o", "r", "t", " ">>
FromWord == <<"f", "r", "o", "m">>
AsWord == <<" ", "a", "s", " ">>

\* the names module_used looks for in the code when line has no alias:
\* line.replace(",", " ").replace("from", " ").replace("import ", " ")
\*     .split(" ").filter(|&x| !x.is_empty())
NamesOfLine(line) ==
    SelectSeq(Split(Replace(Replace(Replace(line, <<",">>, <<" ">>),
                                    FromWord, <<" ">>),
                            ImportSpace, <<" ">>),
                    " "),
              LAMBDA x : x # <<>>)

\* slip: an aliasing line is handled like any other import line
module_used_AliasIgnored(line, code) ==
    IF Contains(line, <<"*">>) THEN TRUE
    ELSE \E i \in 1..Len(NamesOfLine(line)) :
             Contains(code, Trim(NamesOfLine(line)[i]))

\* Python3_original::module_used(line, code)
module_used(line, code) ==
    IF Contains(line, <<"*">>) THEN TRUE
    ELSE IF Contains(line, AsWord)
         THEN Contains(code, Last(Split(line, " ")))
         ELSE \E i \in 1..Len(NamesOfLine(line)) :
                  Contains(code, Trim(NamesOfLine(line)[i]))

\* current_bloc.replace(&[' ', '\t', '\n', '\r'][..], "").is_empty()
BlocIsBlank(d) == RemoveChars(d.current_bloc, {" ", "\t", "\n", "\r"}) = <<>>
\* current_line.replace(" ", "").is_empty()
LineIsBlank(d) == RemoveChars(d.current_line, {" "}) = <<>>

\* the test fetch_imports makes on a line of the file before it keeps it
KeepsImport(line, code) ==
    /\ Contains(line, ImportSpace)
    /\ (Trim(line) = <<>> \/ Trim(line)[1] # "#")
    /\ module_used(line, code)

\* the loop of fetch_imports over the first k of lines
RECURSIVE ImportsLoop(_, _, _, _)
ImportsLoop(imports, lines, code, k) ==
    IF k = 0 THEN imports
    ELSE LET sofar == ImportsLoop(imports, lines, code, k - 1)
         IN  IF KeepsImport(lines[k], code)
             THEN sofar \o <<"\n">> \o lines[k]
             ELSE sofar

\* Python3_original::fetch_imports: the instance afterwards and whether it
\* returned Ok; f is the file at data.filepath
fetch_imports(self, f) ==
    IF self.support_level < Import
    THEN [self |-> self, ok |-> TRUE]
    ELSE IF ~f[1]
         THEN [self |-> self, ok |-> FALSE]
         ELSE LET s1 == IF ~BlocIsBlank(self.data)
                        THEN [self EXCEPT !.code = self.data.current_bloc]
                        ELSE self
                  lines == Lines(f[2])
              IN  [self |-> [s1 EXCEPT !.imports =
                                 ImportsLoop(s1.imports, lines, s1.code, Len(lines))],
                   ok |-> TRUE]

\* slip: the block is taken at every level
fetch_code_BlocAtAnyLevel(self, f) ==
    LET s1 == fetch_imports(self, f).self
    IN  IF ~BlocIsBlank(s1.data)
        THEN [s1 EXCEPT !.code = s1.data.current_bloc]
        ELSE IF ~LineIsBlank(s1.data) /\ s1.support_level >= Line
             THEN [s1 EXCEPT !.code = s1.data.current_line]
             ELSE [s1 EXCEPT !.code = EmptyString]
\* slip: fetch_code gives up where fetch_imports fails (let _res = ... read as ?)
fetch_code_StopsOnImportError(self, f) ==
    IF ~fetch_imports(self, f).ok
    THEN self
    ELSE LET s1 == fetch_imports(self, f).self
         IN  IF ~BlocIsBlank(s1.data) /\ s1.support_level >= Bloc
             THEN [s1 EXCEPT !.code = s1.data.current_bloc]
             ELSE IF ~LineIsBlank(s1.data) /\ s1.support_level >= Line
                  THEN [s1 EXCEPT !.code = s1.data.current_line]
                  ELSE [s1 EXCEPT !.code = EmptyString]

\* Python3_original::fetch_code: the instance afterwards (it returns Ok(()))
fetch_code(self, f) ==
    LET s1 == fetch_imports(self, f).self
    IN  IF ~BlocIsBlank(s1.data) /\ s1.support_level >= Bloc
        THEN [s1 EXCEPT !.code = s1.data.current_bloc]
        ELSE IF ~LineIsBlank(s1.data) /\ s1.support_level >= Line
             THEN [s1 EXCEPT !.code = s1.data.current_line]
             ELSE [s1 EXCEPT !.code = EmptyString]

-----------------------------------------------------------------------------
(* The launcher: a caller holding a Launcher calls select (as info and the *)
(* test do) or select_and_run (as the Run worker does)                     *)

\* no event loop runs and no process was started: the launcher and the
\* interpreter are driven on their own
NoEventLoop ==
    /\ proc = <<>>
    /\ handled = 0
    /\ loop = "recv"
    /\ workers = <<>>
    /\ interpreter_data = <<>>
    /\ guards = <<>>
    /\ cache = <<>>

\* the outcomes of inter.run(): the captured output, or the error of a stage
RunOutcomes == {Ok("stdout"), Err("RuntimeError", "stderr")}

SelectableNames == RegisteredNames \cup {"NotRegistered"}

Init ==
    /\ registry \in AllRegistries
    /\ \E ft \in Filetypes, sel \in SUBSET SelectableNames :
           data = [DataHolderNew EXCEPT !.filetype = ft, !.selected_interpreters = sel]
    /\ file = <<FALSE, EmptyString>>
    /\ selection = None
    /\ inter = <<>>
    /\ result = NoResult
    /\ pc = "start"
    /\ NoEventLoop

\* launcher.select()
Select ==
    /\ pc = "start"
    /\ selection' = select(registry, data)
    /\ pc' = "selected"
    /\ UNCHANGED <<registry, data, file, inter, result, mainVars>>

\* launcher.select_and_run(), up to the call of inter.run()
SelectAndRun ==
    /\ pc = "start"
    /\ selection' = select(registry, data)
    /\ inter' = Launch(registry, data).inter
    /\ result' = Launch(registry, data).result
    /\ pc' = IF Launch(registry, data).inter # <<>> THEN "running" ELSE "done"
    /\ UNCHANGED <<registry, data, file, mainVars>>

\* inter.run() returns and select_and_run returns its result
InterRun ==
    /\ pc = "running"
    /\ result' \in RunOutcomes
    /\ pc' = "done"
    /\ UNCHANGED <<registry, data, file, selection, inter, mainVars>>

Next == Select \/ SelectAndRun \/ InterRun

Spec == Init /\ [][Next]_vars

-----------------------------------------------------------------------------
(* Vocabulary of the launcher's properties *)

\* the registered types that list the context's filetype
Supporting == {i \in 1..Len(registry) : data.filetype \in registry[i].languages}
\* those of them selected_interpreters names
SupportingSelected == {i \in Supporting : registry[i].name \in data.selected_interpreters}
\* those of them that declare default_for_filetype
SupportingDefault == {i \in Supporting : registry[i].default_for_filetype}
\* the scan of select reaches type k: no earlier type has set skip_all
ScanReaches(k) == ~SelectScan(registry, data, k - 1).skip_all
\* select has returned (on its own or inside select_and_run)
SelectReturned == pc # "start"

-----------------------------------------------------------------------------
(* Properties of Launcher::select and Launcher::select_and_run *)

\* C1 (as claimed): with a non-empty filetype, if selected_interpreters names
\* registered interpreters that support the filetype, select returns the name
\* of one of them, whatever the other registered interpreters declare.
C1_ExplicitSelectionIsAbsolute ==
    (SelectReturned /\ data.filetype # "" /\ SupportingSelected # {})
        => selection[1] \in {registry[i].name : i \in SupportingSelected}

\* C2 (as claimed): when the scan of select reaches an interpreter that
\* supports the filetype and is named in selected_interpreters, select returns
\* (that interpreter, Selected), whatever that interpreter's own flags are.
C2_ReachedSelectionReturnsSelected ==
    (SelectReturned /\ data.filetype # "")
        => \A k \in SupportingSelected :
               ScanReaches(k) => selection = Some(registry[k].name, Selected)

\* C3: with no selected interpreter, when the one interpreter that declares
\* default_for_filetype among those supporting the filetype coexists with
\* another supporting one of strictly higher max_support_level, select returns
\* the declared default with its own max_support_level, in either order.
C3_DeclaredDefaultBeatsCapability ==
    (SelectReturned /\ data.selected_interpreters = {})
        => \A dflt \in SupportingDefault :
               (/\ SupportingDefault = {dflt}
                /\ \E h \in Supporting :
                       registry[h].max_support_level > registry[dflt].max_support_level)
               => selection = Some(registry[dflt].name, registry[dflt].max_support_level)

\* C3 witness: select has returned where the more capable interpreter is
\* enumerated before the declared default.
C3_Witness ==
    /\ pc = "selected"
    /\ data.selected_interpreters = {}
    /\ \E dflt \in SupportingDefault :
           /\ SupportingDefault = {dflt}
           /\ \E h \in Supporting :
                  /\ h < dflt
                  /\ registry[h].max_support_level > registry[dflt].max_support_level

\* the max_support_level declared by the type the instance was made from
DeclaredMax(name) == registry[FirstNamed(registry, name)].max_support_level

\* C4 (as claimed): the level handed to the instance select_and_run creates is
\* at most the max_support_level its interpreter type declares.
C4_LevelAtMostDeclaredMax ==
    inter # <<>> => inter[1].support_level <= DeclaredMax(inter[1].name)

\* C4 (amended): the level handed to the instance is at most the declared
\* max_support_level, or it is Selected and the interpreter is named in
\* selected_interpreters.
C4_LevelAtMostDeclaredMaxOrSelected ==
    inter # <<>> =>
        \/ inter[1].support_level <= DeclaredMax(inter[1].name)
        \/ /\ inter[1].support_level = Selected
           /\ inter[1].name \in data.selected_interpreters

\* C4 witness: select_and_run created an instance of an explicitly selected
\* interpreter at level Selected, above the maximum its type declares, after
\* the scan passed a more capable interpreter.
C4_Witness ==
    /\ inter # <<>>
    /\ inter[1].support_level = Selected
    /\ DeclaredMax(inter[1].name) < Selected
    /\ \E h \in Supporting :
           /\ h < FirstNamed(registry, inter[1].name)
           /\ registry[h].max_support_level > DeclaredMax(inter[1].name)

\* C5: with an empty filetype select returns None, for every registry and
\* every selected_interpreters, and select_and_run returns a CustomError
\* without creating or running an interpreter.
C5_EmptyFiletypeSelectsNothing ==
    (SelectReturned /\ data.filetype = "")
        => /\ selection = None
           /\ inter = <<>>
           /\ pc # "running"
           /\ pc = "done" => IsCustomError(result)

\* C5 witness: select_and_run has returned for an empty filetype although the
\* registry is not empty and an interpreter is explicitly selected.
C5_Witness ==
    /\ pc = "done"
    /\ data.filetype = ""
    /\ Len(registry) > 0
    /\ registry[1].name \in data.selected_interpreters
    /\ registry[1].default_for_filetype

\* C6: with a non-empty filetype that no registered interpreter lists, select
\* returns Some(("Generic", Unsupported)) and select_and_run returns a
\* CustomError without creating or running an interpreter.
C6_UnsupportedFiletypeIsCustomError ==
    (SelectReturned /\ data.filetype # "" /\ Supporting = {})
        => /\ selection = Some("Generic", Unsupported)
           /\ inter = <<>>
           /\ pc # "running"
           /\ pc = "done" => IsCustomError(result)

\* C6 witness: select_and_run has returned for a filetype none of the
\* registered interpreters lists, one of them being explicitly selected.
C6_Witness ==
    /\ pc = "done"
    /\ data.filetype # ""
    /\ Supporting = {}
    /\ Len(registry) > 0
    /\ registry[1].name \in data.selected_interpreters

\* C7: with no supporting interpreter explicitly selected and none declaring
\* default_for_filetype, select returns a supporting interpreter whose
\* max_support_level is the greatest among the supporting ones, at that level.
C7_CapabilityMaximizing ==
    (/\ SelectReturned /\ data.filetype # ""
     /\ Supporting # {} /\ SupportingSelected = {} /\ SupportingDefault = {})
        => \E b \in Supporting :
               /\ selection = Some(registry[b].name, registry[b].max_support_level)
               /\ \A o \in Supporting :
                      registry[b].max_support_level >= registry[o].max_support_level

\* C7 witness: select has returned where two supporting interpreters, neither
\* selected nor default, declare different levels, the higher enumerated first.
C7_Witness ==
    /\ pc = "selected"
    /\ SupportingSelected = {} /\ SupportingDefault = {}
    /\ \E a, b \in Supporting :
           a < b /\ registry[a].max_support_level > registry[b].max_support_level

-----------------------------------------------------------------------------
(* Python3_original::fetch_code on an instance bound to (data, level)      *)

\* names of Python modules and of what they export
cos == <<"c", "o", "s">>
os == <<"o", "s">>
math == <<"m", "a", "t", "h">>
numpy == <<"n", "u", "m", "p", "y">>
np == <<"n", "p">>

\* a line of the file at filepath, by its structure
Stmt(kind, module, names, alias) ==
    [kind |-> kind, module |-> module, names |-> names, alias |-> alias]

\* the text of a line
Render(st) ==
    CASE st.kind = "import" -> ImportSpace \o Join(st.names, <<",", " ">>)
      [] st.kind = "from" ->
             FromWord \o <<" ">> \o st.module \o <<" ">> \o ImportSpace
                 \o Join(st.names, <<",", " ">>)
      [] st.kind = "fromstar" ->
             FromWord \o <<" ">> \o st.module \o <<" ">> \o ImportSpace \o <<"*">>
      [] st.kind = "alias" -> ImportSpace \o st.module \o AsWord \o st.alias
      [] st.kind = "comment" -> <<"#", " ">> \o ImportSpace \o Join(st.names, <<",", " ">>)
      [] OTHER -> Join(st.names, <<",", " ">>) \o <<" ", "=", " ", "1">>

\* the lines a file is made of: imports of each form, a commented-out import
\* and a line that imports nothing
Statements ==
    {Stmt("from", math, <<cos>>, <<>>),
     Stmt("import", <<>>, <<os>>, <<>>),
     Stmt("import", <<>>, <<os, math>>, <<>>),
     Stmt("alias", numpy, <<>>, np),
     Stmt("fromstar", math, <<>>, <<>>),
     Stmt("comment", <<>>, <<os>>, <<>>),
     Stmt("other", <<>>, <<os>>, <<>>)}

RECURSIVE StatementLists(_)
StatementLists(n) ==
    IF n = 0 THEN {<<>>}
    ELSE {Append(q, st) : q \in StatementLists(n - 1), st \in Statements}

\* the contents of a file of at most MaxFileLines lines
FileContents ==
    {Join([i \in 1..Len(q) |-> Render(q[i])], <<"\n">>) :
        q \in UNION {StatementLists(n) : n \in 0..MaxFileLines}}

\* the file at filepath: readable with some contents, or not to be opened
Files == {<<FALSE, EmptyString>>} \cup {<<TRUE, c>> : c \in FileContents}

\* the block the editor hands over (the lines of the range joined by "\n")
Blocs ==
    {EmptyString,
     <<" ", "\t", "\n">>,
     <<"p", "r", "i", "n", "t", "(", "c", "o", "s", "(", "0", ")", ")">>,
     <<"n", "p", ".", "p", "i">>,
     <<"x", " ", "=", " ", "1", "\n", "m", "a", "t", "h", ".", "p", "i">>,
     <<"n", "u", "m", "p", "y", ".", "e">>}

\* the line under the cursor
CurrentLines ==
    {EmptyString,
     <<" ", " ">>,
     <<"\t">>,
     <<"y", " ", "=", " ", "c", "o", "s", "(", "1", ")">>,
     <<"x">>}

\* Python3_original's own metadata (get_name, get_supported_languages,
\* get_max_support_level, default_for_filetype)
Python3_original ==
    [name |-> "Python3_original",
     languages |-> {"Python 3", "python", "python3", "py"},
     max_support_level |-> Import,
     default_for_filetype |-> TRUE]

FetchInit ==
    /\ registry = <<Python3_original>>
    /\ \E bloc \in Blocs, line \in CurrentLines :
           data = [DataHolderNew EXCEPT !.filetype = "python",
                                        !.current_bloc = bloc,
                                        !.current_line = line]
    /\ file \in Files
    /\ selection = None
    /\ \E level \in AllLevels :
           inter = <<new_with_level(Python3_original.name, data, level)>>
    /\ result = NoResult
    /\ pc = "created"
    /\ NoEventLoop

\* inter.fetch_code()
FetchCode ==
    /\ pc = "created"
    /\ inter' = <<fetch_code(inter[1], file)>>
    /\ result' = OkUnit
    /\ pc' = "fetched"
    /\ UNCHANGED <<registry, data, file, selection, mainVars>>

FetchNext == FetchCode

FetchSpec == FetchInit /\ [][FetchNext]_vars

-----------------------------------------------------------------------------
(* Properties of Python3_original::fetch_code *)

\* s is not empty once the characters of chars are removed from it
NonEmptyWithout(s, chars) == \E i \in 1..Len(s) : s[i] \notin chars

\* the code fetch_code is to leave at level, the line counting as non-empty
\* when it is not empty once the characters of ignored are removed
FragmentFor(level, d, ignored) ==
    IF level >= Bloc /\ NonEmptyWithout(d.current_bloc, Whitespace)
    THEN d.current_bloc
    ELSE IF level >= Line /\ NonEmptyWithout(d.current_line, ignored)
         THEN d.current_line
         ELSE EmptyString

\* C8 (as claimed): fetch_code returns Ok at every level and leaves as code the
\* block when the level is >= Bloc and the block is non-empty without its
\* whitespace, else the line when the level is >= Line and the line is
\* non-empty, else the empty string.
C8_FetchCodePicksFragment ==
    pc = "fetched" =>
        /\ result = OkUnit
        /\ inter[1].code = FragmentFor(inter[1].support_level, inter[1].data, {})

\* C8 (amended): the same, the line counting as non-empty when it is not empty
\* once its space characters are removed.
C8_FetchCodePicksFragmentSpacesRemoved ==
    pc = "fetched" =>
        /\ result = OkUnit
        /\ inter[1].code = FragmentFor(inter[1].support_level, inter[1].data, {" "})

\* C8 witness: fetch_code has run at level Line with a non-blank block and a
\* different non-blank line, and the code is the line.
C8_Witness ==
    /\ pc = "fetched"
    /\ inter[1].support_level = Line
    /\ NonEmptyWithout(data.current_bloc, Whitespace)
    /\ NonEmptyWithout(data.current_line, {" "})
    /\ data.current_line # data.current_bloc
    /\ inter[1].code = data.current_line

\* the statements whose text is a line of the file
StatementsOfFile == {st \in Statements : \E i \in 1..Len(Lines(file[2])) :
                                             Lines(file[2])[i] = Render(st)}
\* the import lines that are not comments
ImportStatements == {st \in Statements : st.kind \in {"import", "from", "fromstar", "alias"}}
\* the names an import line makes available to the code
ImportedNames(st) ==
    IF st.kind = "alias" THEN {st.alias}
    ELSE {st.names[i] : i \in 1..Len(st.names)}
\* the line of st is among the imports of the instance
Injected(st) == \E i \in 1..Len(Lines(inter[1].imports)) :
                    Lines(inter[1].imports)[i] = Render(st)

\* C9 (as claimed): at Import level, after fetch_code, every import line of
\* the file one of whose imported names occurs in the fragment left in code is
\* among the imports, whether that fragment is the block or the line.
C9_ReferencedImportsInjected ==
    (pc = "fetched" /\ inter[1].support_level = Import /\ file[1]) =>
        \A st \in StatementsOfFile \cap ImportStatements :
            (\E n \in ImportedNames(st) : Contains(inter[1].code, n)) => Injected(st)

\* what C10 says module_used returns for the line of st and the fragment
ClaimedUsed(st, fragment) ==
    CASE st.kind = "fromstar" -> TRUE
      [] st.kind = "alias" -> Contains(fragment, st.alias)
      [] OTHER -> \E n \in ImportedNames(st) : Contains(fragment, n)

\* the same, the module of a "from M import ..." line counting as a name
UsedByTokens(st, fragment) ==
    \/ ClaimedUsed(st, fragment)
    \/ st.kind = "from" /\ Contains(fragment, st.module)

\* fetch_imports has scanned the file for the block as the fragment
ScannedForBloc ==
    /\ pc = "fetched"
    /\ inter[1].support_level >= Import
    /\ file[1]
    /\ NonEmptyWithout(data.current_bloc, Whitespace)

\* C10 (as claimed): a non-comment import line is kept (module_used returns
\* true) if it has a wildcard; an aliasing line exactly when its alias occurs
\* in the fragment; any other exactly when one of its comma-separated imported
\* names occurs in the fragment.
C10_ModuleUsedIffNameOccurs ==
    ScannedForBloc =>
        \A st \in StatementsOfFile \cap ImportStatements :
            Injected(st) <=> ClaimedUsed(st, data.current_bloc)

\* C10 (amended): as claimed, except that a "from M import a, b" line is also
\* kept when the module name M occurs in the fragment.
C10_ModuleUsedIffTokenOccurs ==
    ScannedForBloc =>
        \A st \in StatementsOfFile \cap ImportStatements :
            Injected(st) <=> UsedByTokens(st, data.current_bloc)

\* C10 witness: the file holds an aliasing line and a "from" line, the block
\* names the aliased module but neither the alias nor anything of the "from"
\* line, and both lines are omitted.
C10_Witness ==
    /\ ScannedForBloc
    /\ \E a, f \in StatementsOfFile :
           /\ a.kind = "alias" /\ f.kind = "from"
           /\ Contains(data.current_bloc, a.module)
           /\ ~Contains(data.current_bloc, a.alias)
           /\ ~Injected(a) /\ ~Injected(f)

-----------------------------------------------------------------------------
(* fetch_code when the file at filepath cannot be read *)

\* the instance fetch_code started from
BeforeFetch == new_with_level(inter[1].name, inter[1].data, inter[1].support_level)

\* C15: at Import level, when the file at filepath cannot be opened or read,
\* fetch_code still returns Ok, leaves the imports empty and sets code as it
\* does at the same level with a readable file that has no import line.
C15_UnreadableFileIsNoImports ==
    (pc = "fetched" /\ inter[1].support_level >= Import /\ ~file[1]) =>
        /\ result = OkUnit
        /\ inter[1].imports = EmptyString
        /\ inter[1].code = fetch_code(BeforeFetch, <<TRUE, EmptyString>>).code
        /\ inter[1].code =
               fetch_code(BeforeFetch,
                          <<TRUE, Render(Stmt("other", <<>>, <<os>>, <<>>))>>).code

\* C15 witness: fetch_code has run at Import level on a file that cannot be
\* read, with a block to run, and the block is the code.
C15_Witness ==
    /\ pc = "fetched"
    /\ inter[1].support_level = Import
    /\ ~file[1]
    /\ ~BlocIsBlank(data)
    /\ inter[1].code = data.current_bloc
    /\ inter[1].imports = EmptyString

-----------------------------------------------------------------------------
(* Python3_original: add_boilerplate, add_boilerplate_repl, build, execute *)

\* the number of leading spaces and tabs of line (unindent's count_spaces)
RECURSIVE CountSpaces(_)
CountSpaces(line) ==
    IF line # <<>> /\ line[1] \in {" ", "\t"} THEN 1 + CountSpaces(Tail(line)) ELSE 0

\* the least element of a non-empty set of numbers
Min(S) == CHOOSE x \in S : \A y \in S : x <= y

\* unindent(s): the first line is kept as it is; every later line loses the
\* indentation common to the later lines that are not made of spaces and tabs
\* only; the "\n" that starts s is dropped
Unindent(s) ==
    LET lines == Split(s, "\n")
        ignore_first_line == s # <<>> /\ s[1] = "\n"
        counted == {i \in 2..Len(lines) : CountSpaces(lines[i]) < Len(lines[i])}
        spaces == IF counted = {} THEN 0
                  ELSE Min({CountSpaces(lines[i]) : i \in counted})
        out(i) == (IF i > 2 \/ (i = 2 /\ ~ignore_first_line) THEN <<"\n">> ELSE <<>>)
                      \o (IF i = 1 THEN lines[1]
                          ELSE IF Len(lines[i]) > spaces
                               THEN DropFirst(lines[i], spaces)
                               ELSE <<>>)
    IN  Join([i \in 1..Len(lines) |-> out(i)], <<>>)

TryHead ==
    <<"\n", "t", "r", "y", ":", "\n">>

ExceptPass ==
    <<"\n", "e", "x", "c", "e", "p", "t", ":", "\n", "\t", "p", "a", "s",
      "s", "\n">>

\* the loop of add_boilerplate over the first k lines of the imports
RECURSIVE IndentedImports(_, _)
IndentedImports(lines, k) ==
    IF k = 0 THEN <<>>
    ELSE IndentedImports(lines, k - 1) \o <<"\t">> \o lines[k] \o <<"\n">>

\* Python3_original::add_boilerplate: the instance afterwards (it returns Ok(()))
add_boilerplate(self) ==
    LET lines == Lines(self.imports)
        imports == IF self.imports # <<>>
                   THEN TryHead \o IndentedImports(lines, Len(lines)) \o ExceptPass
                   ELSE self.imports
    IN  [self EXCEPT !.imports = imports,
                     !.code = imports \o Unindent(<<"\n">> \o self.code)]

\* data.work_dir, the directory DataHolder::new makes (a short stand-in for
\* <cache dir>/sniprun)
WorkDir ==
    <<"/", "w">>

\* the directory new_with_level makes under work_dir
SubDir ==
    <<"/", "p", "y", "t", "h", "o", "n", "3", "_", "o", "r", "i", "g", "i",
      "n", "a", "l">>

\* self.cache_dir of a Python3_original
cache_dir == WorkDir \o SubDir

\* self.main_file_path of a Python3_original
main_file_path == cache_dir \o <<"/", "m", "a", "i", "n", ".", "p", "y">>

\* klepto_memo of add_boilerplate_repl
klepto_memo == <<"'">> \o cache_dir \o <<"/", "m", "e", "m", "o", "'">>

LoadCall ==
    <<"s", "n", "i", "p", "r", "u", "n", "1", "4", "2", "8", "5", "9", "_",
      "l", "o", "a", "d", "(">>

SaveCall ==
    <<"s", "n", "i", "p", "r", "u", "n", "1", "4", "2", "8", "5", "9", "_",
      "s", "a", "v", "e", "(">>

\* what add_boilerplate_repl hands to save_code on a first run
NotTheFirstRun ==
    <<"N", "o", "t", " ", "t", "h", "e", " ", "f", "i", "r", "s", "t", " ",
      "r", "u", "n", " ", "a", "n", "y", "m", "o", "r", "e">>

\* the contents of saveload.py under plugin_root (a one-line stand-in)
python_functions ==
    <<"d", "e", "f", " ", "s", "n", "i", "p", "r", "u", "n", "1", "4", "2",
      "8", "5", "9", "_", "l", "o", "a", "d", "(", "p", ")", ":", " ", "p",
      "a", "s", "s">>

\* slip: add_boilerplate_repl loads the old variables on every run
add_boilerplate_repl_AlwaysLoads(self, previous_code) ==
    LET final_code ==
            self.imports \o <<"\n">> \o python_functions \o <<"\n">>
                \o LoadCall \o klepto_memo \o <<")">> \o <<"\n">>
                \o Unindent(<<"\n">> \o self.code) \o <<"\n">>
                \o SaveCall \o klepto_memo \o <<")">>
    IN  [self |-> [self EXCEPT !.code = final_code],
         saves |-> previous_code = EmptyString]

\* Python3_original::add_boilerplate_repl, previous_code being what
\* read_previous_code returns: the instance afterwards and whether save_code
\* was called (it returns Ok(()))
add_boilerplate_repl(self, previous_code) ==
    LET first_run == previous_code = EmptyString
        final_code ==
            self.imports \o <<"\n">> \o python_functions \o <<"\n">>
                \o (IF first_run THEN <<>>
                    ELSE LoadCall \o klepto_memo \o <<")">> \o <<"\n">>)
                \o Unindent(<<"\n">> \o self.code) \o <<"\n">>
                \o SaveCall \o klepto_memo \o <<")">>
    IN  [self |-> [self EXCEPT !.code = final_code],
         saves |-> first_run]

\* what Command::output() hands back once the process has exited
Output(success, stdout, stderr) ==
    [success |-> success, stdout |-> stdout, stderr |-> stderr]

\* Python3_original::execute, output being what the python3 process left
execute(output) ==
    IF output.success
    THEN Ok(output.stdout)
    ELSE Err("RuntimeError",
             IF Lines(output.stderr) # <<>>
             THEN Last(Lines(output.stderr))
             ELSE output.stderr)

-----------------------------------------------------------------------------
(* Python3_original::execute on what the process left *)

\* stderr is at most this many characters long
MaxStderrLen == 4

\* the characters stderr is made of: a letter, a space and the line terminator
StderrChars == {"E", " ", "\n"}

RECURSIVE StringsOver(_, _)
StringsOver(chars, n) ==
    IF n = 0 THEN {<<>>}
    ELSE {Append(s, c) : s \in StringsOver(chars, n - 1), c \in chars}

Stderrs == UNION {StringsOver(StderrChars, n) : n \in 0..MaxStderrLen}

Stdouts == {EmptyString, <<"1", "\n">>}

\* what the process may leave: any exit status with any stdout and stderr
Outputs == {Output(s, out, err) : s \in BOOLEAN, out \in Stdouts, err \in Stderrs}

\* the code build has written for the block `x = 1`, no import being used
BuiltInstance ==
    add_boilerplate(
        fetch_code(new_with_level(Python3_original.name,
                                  [DataHolderNew EXCEPT
                                      !.filetype = "python",
                                      !.current_bloc = <<"x", " ", "=", " ", "1">>],
                                  Import),
                   <<FALSE, EmptyString>>))

ExecInit ==
    /\ registry = <<Python3_original>>
    /\ data = BuiltInstance.data
    /\ file = <<FALSE, EmptyString>>
    /\ selection = None
    /\ inter = <<BuiltInstance>>
    /\ result = OkUnit
    /\ pc = "built"
    /\ NoEventLoop

\* inter.execute(): the process runs to its end and execute returns
Execute ==
    /\ pc = "built"
    /\ \E output \in Outputs :
           /\ proc' = <<output>>
           /\ result' = execute(output)
    /\ pc' = "executed"
    /\ UNCHANGED <<registry, data, file, selection, inter,
                   handled, loop, workers, interpreter_data, guards, cache>>

ExecNext == Execute

ExecSpec == ExecInit /\ [][ExecNext]_vars

\* the lines of s that are not blank (empty or made of whitespace only)
NonBlankLines(s) == SelectSeq(Lines(s), LAMBDA l : Trim(l) # <<>>)

\* the message C12 says a failed run carries
LastNonBlankLineOrAll(stderr) ==
    IF NonBlankLines(stderr) # <<>> THEN Last(NonBlankLines(stderr)) ELSE stderr

\* C12 (as claimed): when the process exits with a non-zero status, execute
\* returns a RuntimeError whose message is the last non-blank line of stderr,
\* whatever blank lines end stderr, and the whole of stderr when every line
\* is blank.
C12_MessageIsLastNonBlankLine ==
    (pc = "executed" /\ ~proc[1].success) =>
        result = Err("RuntimeError", LastNonBlankLineOrAll(proc[1].stderr))

-----------------------------------------------------------------------------
(* The shared InterpreterData as an interpreter reads and writes it *)

\* the InterpreterData EventHandler::new makes
InterpreterDataNew == [owner |-> "", content |-> EmptyString, pid |-> None]

\* self.read_previous_code(), idata being the record behind
\* data.interpreter_data: its content when self's type owns it, else empty
read_previous_code(self, idata) ==
    IF idata.owner = self.name THEN idata.content ELSE EmptyString

\* self.save_code(code): the record afterwards
save_code(self, idata, code) ==
    [idata EXCEPT !.owner = self.name,
                  !.content = read_previous_code(self, idata) \o <<"\n">> \o code]

-----------------------------------------------------------------------------
(* The program Python3_original generates and what python3 makes of it *)

\* the modules python3 may be unable to import
Modules == {math, os, numpy}

\* the modules the line imports (none when it is not an import statement)
ModulesOfLine(line) ==
    UNION {IF st.kind \in {"from", "fromstar", "alias"}
           THEN {st.module}
           ELSE {st.names[i] : i \in 1..Len(st.names)} :
               st \in {s \in ImportStatements : Render(s) = Trim(line)}}

\* python3 raises on the line: it imports a module that is not available
Raises(line, unavailable) == ModulesOfLine(line) \cap unavailable # {}

\* python3 on the first k of the lines of a program: a try block runs its
\* indented lines up to the first that raises and its except block swallows
\* the exception; a line outside a try block that raises ends the program
RECURSIVE PyExec(_, _, _)
PyExec(lines, k, unavailable) ==
    IF k = 0
    THEN [mode |-> "top", raised |-> FALSE, aborted |-> FALSE, executed |-> <<>>]
    ELSE LET s == PyExec(lines, k - 1, unavailable)
             line == lines[k]
             indented == line[1] \in {" ", "\t"}
         IN  IF s.aborted \/ Trim(line) = <<>> THEN s
             ELSE IF line = Trim(TryHead)
                  THEN [s EXCEPT !.mode = "try", !.raised = FALSE]
             ELSE IF line = <<"e", "x", "c", "e", "p", "t", ":">>
                  THEN [s EXCEPT !.mode = "except"]
             ELSE IF indented /\ s.mode = "try"
                  THEN IF s.raised THEN s
                       ELSE IF Raises(line, unavailable)
                            THEN [s EXCEPT !.raised = TRUE]
                            ELSE [s EXCEPT !.executed = Append(@, Trim(line))]
             ELSE IF indented /\ s.mode = "except" THEN s
             ELSE IF Raises(line, unavailable)
                  THEN [s EXCEPT !.mode = "top", !.aborted = TRUE]
                  ELSE [s EXCEPT !.mode = "top", !.executed = Append(@, line)]

\* the python3 process on a program: the lines it executed, in order, and
\* whether an exception ended it
Python3(program, unavailable) ==
    LET s == PyExec(Lines(program), Len(Lines(program)), unavailable)
    IN  [unavailable |-> unavailable, executed |-> s.executed, aborted |-> s.aborted]

\* what Command::output() hands back for such a process
OutputOf(p) ==
    IF p.aborted THEN Output(FALSE, EmptyString, <<"E", "\n">>)
    ELSE Output(TRUE, EmptyString, EmptyString)

\* blocks that use every name the import lines of Statements give
BoilerBlocs ==
    {<<"p", "r", "i", "n", "t", "(", "c", "o", "s", "(", "n", "p", ".", "p", "i", ")", ")",
       "\n", "x", " ", "=", " ", "o", "s">>,
     <<" ", " ", "y", " ", "=", " ", "c", "o", "s", "(", "1", ")",
       "\n", " ", " ", "z", " ", "=", " ", "n", "p">>}

BoilerInit ==
    /\ registry = <<Python3_original>>
    /\ \E bloc \in BoilerBlocs :
           data = [DataHolderNew EXCEPT !.filetype = "python", !.current_bloc = bloc]
    /\ file \in {f \in Files : f[1]}
    /\ selection = Some(Python3_original.name, Import)
    /\ inter = <<fetch_code(new_with_level(Python3_original.name, data, Import), file)>>
    /\ result = OkUnit
    /\ pc = "fetched"
    /\ proc = <<>>
    /\ interpreter_data \in
           {InterpreterDataNew,
            save_code(new_with_level(Python3_original.name, data, Import),
                      InterpreterDataNew, NotTheFirstRun)}
    /\ handled = 0
    /\ loop = "recv"
    /\ workers = <<>>
    /\ guards = <<>>
    /\ cache = <<>>

\* inter.add_boilerplate() and inter.build()
AddBoilerplate ==
    /\ pc = "fetched"
    /\ inter' = <<add_boilerplate(inter[1])>>
    /\ pc' = "built"
    /\ UNCHANGED <<registry, data, file, selection, result, mainVars>>

\* inter.add_boilerplate_repl() and inter.build_repl()
AddBoilerplateRepl ==
    /\ pc = "fetched"
    /\ LET r == add_boilerplate_repl(inter[1],
                                     read_previous_code(inter[1], interpreter_data))
       IN  /\ inter' = <<r.self>>
           /\ interpreter_data' =
                  IF r.saves
                  THEN save_code(inter[1], interpreter_data, NotTheFirstRun)
                  ELSE interpreter_data
    /\ pc' = "built_repl"
    /\ UNCHANGED <<registry, data, file, selection, result,
                   proc, handled, loop, workers, guards, cache>>

\* inter.execute(): python3 runs the program with some modules unavailable
Python3Runs ==
    /\ pc \in {"built", "built_repl"}
    /\ \E unavailable \in SUBSET Modules :
           /\ proc' = <<Python3(inter[1].code, unavailable)>>
           /\ result' = execute(OutputOf(Python3(inter[1].code, unavailable)))
    /\ pc' = IF pc = "built" THEN "ran" ELSE "ran_repl"
    /\ UNCHANGED <<registry, data, file, selection, inter,
                   handled, loop, workers, interpreter_data, guards, cache>>

BoilerNext == AddBoilerplate \/ AddBoilerplateRepl \/ Python3Runs

BoilerSpec == BoilerInit /\ [][BoilerNext]_vars

\* the instance as fetch_code left it
Fetched == fetch_code(new_with_level(Python3_original.name, data, Import), file)

\* the import lines fetch_imports discovered
Discovered == {l \in {Lines(Fetched.imports)[i] : i \in 1..Len(Lines(Fetched.imports))} :
                   l # <<>>}

\* the lines of the user's code
CodeLines == {l \in {Lines(Fetched.code)[i] : i \in 1..Len(Lines(Fetched.code))} :
                  Trim(l) # <<>>}

\* python3 has executed the line
Executed(l) == \E i \in 1..Len(proc[1].executed) : proc[1].executed[i] = Trim(l)

\* C11 (as claimed): in the program generated from the discovered import
\* lines, whichever of the imports fail when python3 runs it, every other
\* discovered import is executed and the user's code runs, for the program of
\* add_boilerplate and for the one of add_boilerplate_repl.
C11_FailingImportsHarmless ==
    pc \in {"ran", "ran_repl"} =>
        /\ \A l \in Discovered : ~Raises(l, proc[1].unavailable) => Executed(l)
        /\ \A l \in CodeLines : Executed(l)

-----------------------------------------------------------------------------
(* main: the event loop, the threads of its Run events and what they share *)

\* the event loop receives at most this many events
MaxEvents == 3
\* at most this many of them are Run events
MaxRuns == 2

\* the variables the event loop and its threads leave alone
fixedVars == <<registry, data, file, selection, inter, result, pc, proc>>

\* the names of the events the editor sends
Events == {"run", "clean", "clearrepl", "ping", "info", "bogus", "Run", ""}

\* Messages::from(event)
Messages_from(event) ==
    CASE event = "run" -> "Run"
      [] event = "clean" -> "Clean"
      [] event = "clearrepl" -> "ClearReplMemory"
      [] event = "ping" -> "Ping"
      [] event = "info" -> "Info"
      [] OTHER -> "Unknown"

\* what the editor answers to fill_data: the filetype, the line under the
\* cursor, the lines of the range and the file at filepath
EditorFiletype == "python"
EditorLine == <<"x">>
EditorBloc == <<"x", " ", "=", " ", "o", "s">>
EditorFile == <<TRUE, Render(Stmt("import", <<>>, <<os>>, <<>>))>>

\* the values of a Run event: the interpreters of repl_enable
RunValues == {[repl_enable |-> {}], [repl_enable |-> {Python3_original.name}]}

\* what the python3 process of a run may leave
RunOutputs ==
    {Output(TRUE, <<"1", "\n">>, EmptyString),
     Output(FALSE, EmptyString, <<"E", "\n">>)}

\* what python3 leaves when there is no file at main_file_path
NoFileOutput == Output(FALSE, EmptyString, <<"n", "o", " ", "f", "i", "l", "e", "\n">>)

\* event_handler2.data once fill_data has returned
FilledData ==
    [DataHolderNew EXCEPT !.filetype = EditorFiletype,
                          !.current_line = EditorLine,
                          !.current_bloc = EditorBloc,
                          !.selected_interpreters = {}]

\* the instances new_with_level makes of such data
LaunchedInstances ==
    {new_with_level(Python3_original.name, FilledData, level) : level \in AllLevels}

\* fetch_code on each of them, the file at filepath being EditorFile
FetchCodeOn == [i \in LaunchedInstances |-> fetch_code(i, EditorFile)]

FetchedInstances == {FetchCodeOn[i] : i \in LaunchedInstances}

\* add_boilerplate on each instance fetch_code leaves
AddBoilerplateOn == [i \in FetchedInstances |-> add_boilerplate(i)]

\* the content k calls of save_code leave in a record that was empty
RECURSIVE SavedContent(_)
SavedContent(k) ==
    IF k = 0 THEN EmptyString
    ELSE SavedContent(k - 1) \o <<"\n">> \o NotTheFirstRun

\* what read_previous_code may return: every run saves at most once
PreviousCodes == {SavedContent(k) : k \in 0..MaxRuns}

\* add_boilerplate_repl on each instance fetch_code leaves, for each
\* previous code
AddBoilerplateReplOn ==
    [i \in FetchedInstances, p \in PreviousCodes |-> add_boilerplate_repl(i, p)]

\* work_dir as DataHolder::new leaves it: no subdirectory of an interpreter,
\* hence no main.py and no memo; repl_runs tells whether, since the directory
\* was made or last emptied, no REPL-like run has come to add_boilerplate_repl
\* ("none"), some has ("started") or some has and is over ("ended")
CacheNew == [subdir |-> FALSE, main_py |-> <<>>, memo |-> FALSE, repl_runs |-> "none"]

\* the thread of a Run event at thread::spawn: event_handler2 is a clone of
\* event_handler. The other fields record what happened to the run: the
\* stages it started and the one that failed, the program python3 read, the
\* InterpreterData add_boilerplate_repl read (seen), whether it went on to
\* save_code (saves), the repl_runs of work_dir it found (found), whether it
\* was in flight when the handler of a ClearReplMemory event came to its end
\* (during_clear), whether it was spawned right after a ClearReplMemory event
\* that no run was in flight for (after_clear) and whether no other run has
\* been in flight since it was spawned (alone)
NewWorker(values, d, after_clear, alone) ==
    [pc |-> "spawned",
     values |-> values,
     data |-> d,
     inter |-> <<>>,
     stages |-> <<>>,
     failed |-> "",
     program |-> <<>>,
     result |-> NoResult,
     seen |-> <<>>,
     saves |-> FALSE,
     found |-> "",
     during_clear |-> FALSE,
     after_clear |-> after_clear,
     alone |-> alone]

\* the thread of workers[w] has not come to its end
InFlight(w) == workers[w].pc \notin {"done", "panicked"}

\* the run is to behave REPL-like: its interpreter is named in repl_enable
ReplMode(w) == Python3_original.name \in workers[w].values.repl_enable

MainInit ==
    /\ registry = <<Python3_original>>
    /\ data = DataHolderNew
    /\ file = EditorFile
    /\ selection = None
    /\ inter = <<>>
    /\ result = NoResult
    /\ pc = "main"
    /\ proc = <<>>
    /\ handled = 0
    /\ loop = "recv"
    /\ workers = <<>>
    /\ interpreter_data = InterpreterDataNew
    /\ guards = [nvim |-> {}, interpreter_data |-> {}]
    /\ cache = CacheNew

\* the receiver hands the event loop its next event; the loop is at "cleared"
\* instead of "recv" when the event before was ClearReplMemory, and at
\* "passed" when it was Ping or Unknown
Receives == loop \in {"recv", "cleared", "passed"} /\ handled < MaxEvents

\* Messages::Run: a thread is spawned with a clone of event_handler
HandleRun ==
    /\ Receives
    /\ Len(workers) < MaxRuns
    /\ \E event \in Events, values \in RunValues :
           /\ Messages_from(event) = "Run"
           /\ workers' =
                  Append([i \in DOMAIN workers |->
                             [workers[i] EXCEPT !.alone = @ /\ ~InFlight(i)]],
                         NewWorker(values, data,
                                   /\ loop = "cleared"
                                   /\ \A i \in DOMAIN workers :
                                          ~workers[i].during_clear,
                                   \A i \in DOMAIN workers : ~InFlight(i)))
    /\ handled' = handled + 1
    /\ loop' = "recv"
    /\ UNCHANGED <<fixedVars, interpreter_data, guards, cache>>

\* Messages::Clean: clean_dir removes work_dir and makes it anew
HandleClean ==
    /\ Receives
    /\ \E event \in Events : Messages_from(event) = "Clean"
    /\ cache' = CacheNew
    /\ handled' = handled + 1
    /\ loop' = "recv"
    /\ UNCHANGED <<fixedVars, workers, interpreter_data, guards>>

\* Messages::ClearReplMemory is received: the loop comes to the first lock()
ReceiveClearReplMemory ==
    /\ Receives
    /\ \E event \in Events : Messages_from(event) = "ClearReplMemory"
    /\ loop' = "clear_owner"
    /\ UNCHANGED <<fixedVars, handled, workers, interpreter_data, guards, cache>>

\* Messages::ClearReplMemory, its first statement: owner.clear() under the guard
HandleClearReplMemory ==
    /\ loop = "clear_owner"
    /\ guards.interpreter_data = {}
    /\ interpreter_data' = [interpreter_data EXCEPT !.owner = ""]
    /\ loop' = "clear_content"
    /\ UNCHANGED <<fixedVars, handled, workers, guards, cache>>

\* Messages::ClearReplMemory, its second statement: content.clear() under the
\* guard, taken anew
ClearContent ==
    /\ loop = "clear_content"
    /\ guards.interpreter_data = {}
    /\ interpreter_data' = [interpreter_data EXCEPT !.content = EmptyString]
    /\ loop' = "cleared"
    /\ handled' = handled + 1
    /\ workers' = [i \in DOMAIN workers |->
                       [workers[i] EXCEPT !.during_clear = @ \/ InFlight(i)]]
    /\ UNCHANGED <<fixedVars, guards, cache>>

\* Messages::Ping: the event is passed over
HandlePing ==
    /\ Receives
    /\ \E event \in Events : Messages_from(event) = "Ping"
    /\ handled' = handled + 1
    /\ loop' = "passed"
    /\ UNCHANGED <<fixedVars, workers, interpreter_data, guards, cache>>

\* Messages::Info is received: the loop comes to fill_data on a clone of
\* event_handler
ReceiveInfo ==
    /\ Receives
    /\ \E event \in Events : Messages_from(event) = "Info"
    /\ loop' = "info"
    /\ UNCHANGED <<fixedVars, handled, workers, interpreter_data, guards, cache>>

\* slip: Info fills the DataHolder of the event loop, not that of a clone
HandleInfo_FillsOwnData ==
    /\ loop = "info"
    /\ guards.nvim = {}
    /\ data' = FilledData
    /\ handled' = handled + 1
    /\ loop' = "recv"
    /\ UNCHANGED <<registry, file, selection, inter, result, pc, proc>>
    /\ UNCHANGED <<workers, interpreter_data, guards, cache>>

\* Messages::Info: fill_data takes the guard of nvim and gives it back, then
\* launcher.info() and return_message_classic
HandleInfo ==
    /\ loop = "info"
    /\ guards.nvim = {}
    /\ handled' = handled + 1
    /\ loop' = "recv"
    /\ UNCHANGED <<fixedVars, workers, interpreter_data, guards, cache>>

\* slip: an Unknown event falls through to what Clean does
HandleUnknown_Cleans ==
    /\ Receives
    /\ \E event \in Events : Messages_from(event) = "Unknown"
    /\ cache' = CacheNew
    /\ handled' = handled + 1
    /\ loop' = "passed"
    /\ UNCHANGED <<fixedVars, workers, interpreter_data, guards>>

\* Messages::Unknown: the event is passed over
HandleUnknown ==
    /\ Receives
    /\ \E event \in Events : Messages_from(event) = "Unknown"
    /\ handled' = handled + 1
    /\ loop' = "passed"
    /\ UNCHANGED <<fixedVars, workers, interpreter_data, guards, cache>>

\* workers[w] is at position p
At(w, p) == w \in DOMAIN workers /\ workers[w].pc = p

\* slip: fill_data keeps the guard of nvim it took for the block
FillDataUnlock_KeepsGuard(w) ==
    /\ At(w, "fill_bloc")
    /\ workers' = [workers EXCEPT ![w] =
           [@ EXCEPT !.pc = "filled",
                     !.data = [@ EXCEPT !.current_bloc = EditorBloc,
                                        !.selected_interpreters = {}]]]
    /\ UNCHANGED <<fixedVars, handled, loop, interpreter_data, guards, cache>>

\* fill_data up to the block: the filetype and the line are asked for, each
\* under the guard of nvim, and the guard is taken again for the block
FillDataLock(w) ==
    /\ At(w, "spawned")
    /\ guards.nvim = {}
    /\ guards' = [guards EXCEPT !.nvim = {w}]
    /\ workers' = [workers EXCEPT ![w] =
           [@ EXCEPT !.pc = "fill_bloc",
                     !.data = [@ EXCEPT !.filetype = EditorFiletype,
                                        !.current_line = EditorLine]]]
    /\ UNCHANGED <<fixedVars, handled, loop, interpreter_data, cache>>

\* fill_data from the block on: the block is read, the guard of nvim is
\* dropped at the end of the scope, and the rest is filled in
FillDataUnlock(w) ==
    /\ At(w, "fill_bloc")
    /\ guards' = [guards EXCEPT !.nvim = {}]
    /\ workers' = [workers EXCEPT ![w] =
           [@ EXCEPT !.pc = "filled",
                     !.data = [@ EXCEPT !.current_bloc = EditorBloc,
                                        !.selected_interpreters = {}]]]
    /\ UNCHANGED <<fixedVars, handled, loop, interpreter_data, cache>>

\* launcher.select_and_run() up to inter.run(): new_with_level makes the
\* subdirectory of the interpreter; without an interpreter the error is
\* returned at once
LaunchInterpreter(w) ==
    /\ At(w, "filled")
    /\ LET l == Launch(registry, workers[w].data)
       IN  IF l.inter # <<>>
           THEN /\ workers' = [workers EXCEPT ![w] =
                       [@ EXCEPT !.pc = "run", !.inter = l.inter]]
                /\ cache' = [cache EXCEPT !.subdir = TRUE]
           ELSE /\ workers' = [workers EXCEPT ![w] =
                       [@ EXCEPT !.pc = "display", !.result = l.result]]
                /\ UNCHANGED cache
    /\ UNCHANGED <<fixedVars, handled, loop, interpreter_data, guards>>

\* inter.run(), first stage: fetch_code (fetch_code_repl is the same)
FetchCodeStage(w) ==
    /\ At(w, "run")
    /\ workers' = [workers EXCEPT ![w] =
           [@ EXCEPT !.pc = "fetched",
                     !.stages = Append(@, "fetch_code"),
                     !.inter = <<FetchCodeOn[workers[w].inter[1]]>>]]
    /\ UNCHANGED <<fixedVars, handled, loop, interpreter_data, guards, cache>>

\* inter.run(), second stage of a plain run: add_boilerplate
AddBoilerplateStage(w) ==
    /\ At(w, "fetched")
    /\ ~ReplMode(w)
    /\ workers' = [workers EXCEPT ![w] =
           [@ EXCEPT !.pc = "boiled",
                     !.stages = Append(@, "add_boilerplate"),
                     !.inter = <<AddBoilerplateOn[workers[w].inter[1]]>>]]
    /\ UNCHANGED <<fixedVars, handled, loop, interpreter_data, guards, cache>>

\* inter.run(), second stage of a REPL-like run: add_boilerplate_repl up to
\* read_previous_code, which reads the record under its guard
AddBoilerplateReplStage(w) ==
    /\ At(w, "fetched")
    /\ ReplMode(w)
    /\ guards.interpreter_data = {}
    /\ LET r == AddBoilerplateReplOn[
                    workers[w].inter[1],
                    read_previous_code(workers[w].inter[1], interpreter_data)]
       IN  workers' = [workers EXCEPT ![w] =
               [@ EXCEPT !.pc = IF r.saves THEN "saving" ELSE "boiled",
                         !.stages = Append(@, "add_boilerplate"),
                         !.inter = <<r.self>>,
                         !.seen = <<interpreter_data>>,
                         !.saves = r.saves,
                         !.found = cache.repl_runs]]
    /\ cache' = [cache EXCEPT !.repl_runs = IF @ = "none" THEN "started" ELSE @]
    /\ UNCHANGED <<fixedVars, handled, loop, interpreter_data, guards>>

\* slip: save_code keeps the guard of the InterpreterData it took
SaveCode_KeepsGuard(w) ==
    /\ At(w, "saving")
    /\ guards.interpreter_data = {}
    /\ interpreter_data' = save_code(workers[w].inter[1], interpreter_data, NotTheFirstRun)
    /\ workers' = [workers EXCEPT ![w] = [@ EXCEPT !.pc = "boiled"]]
    /\ guards' = [guards EXCEPT !.interpreter_data = @ \cup {w}]
    /\ UNCHANGED <<fixedVars, handled, loop, cache>>

\* add_boilerplate_repl on a first run: save_code writes the record under
\* its guard
SaveCode(w) ==
    /\ At(w, "saving")
    /\ guards.interpreter_data = {}
    /\ interpreter_data' = save_code(workers[w].inter[1], interpreter_data, NotTheFirstRun)
    /\ workers' = [workers EXCEPT ![w] = [@ EXCEPT !.pc = "boiled"]]
    /\ UNCHANGED <<fixedVars, handled, loop, guards, cache>>

\* inter.run(), third stage: build writes the code to main_file_path; the
\* thread panics (expect) when the file cannot be written, which is so when
\* the subdirectory is gone
BuildStage(w) ==
    /\ At(w, "boiled")
    /\ IF cache.subdir
       THEN /\ cache' = [cache EXCEPT !.main_py = <<workers[w].inter[1].code>>]
            /\ workers' = [workers EXCEPT ![w] =
                   [@ EXCEPT !.pc = "built", !.stages = Append(@, "build")]]
       ELSE /\ workers' = [workers EXCEPT ![w] =
                   [@ EXCEPT !.pc = "panicked",
                             !.stages = Append(@, "build"),
                             !.failed = "build"]]
            /\ cache' = [cache EXCEPT !.repl_runs =
                   IF ReplMode(w) /\ @ = "started" THEN "ended" ELSE @]
    /\ UNCHANGED <<fixedVars, handled, loop, interpreter_data, guards>>

\* inter.run(), fourth stage: execute starts python3 on main_file_path and
\* waits for it in Command::output(); python3 reads the file as it starts
ExecuteStart(w) ==
    /\ At(w, "built")
    /\ workers' = [workers EXCEPT ![w] =
           [@ EXCEPT !.pc = "executing",
                     !.stages = Append(@, "execute"),
                     !.program = cache.main_py]]
    /\ UNCHANGED <<fixedVars, handled, loop, interpreter_data, guards, cache>>

\* the python3 process exits: execute returns, and with it inter.run() and
\* select_and_run; the save call of a REPL-like program has left the memo
ProcessExits(w) ==
    /\ At(w, "executing")
    /\ \E output \in IF workers[w].program = <<>> THEN {NoFileOutput} ELSE RunOutputs :
           /\ workers' = [workers EXCEPT ![w] =
                  [@ EXCEPT !.pc = "display",
                            !.failed = IF output.success THEN "" ELSE "execute",
                            !.result = execute(output)]]
           /\ cache' = [cache EXCEPT
                  !.memo = @ \/ (ReplMode(w) /\ output.success /\ cache.subdir),
                  !.repl_runs = IF ReplMode(w) /\ @ = "started" THEN "ended" ELSE @]
    /\ UNCHANGED <<fixedVars, handled, loop, interpreter_data, guards>>

\* the python3 process runs on without end: Command::output() never returns
ProcessHangs(w) ==
    /\ At(w, "executing")
    /\ workers[w].program # <<>>
    /\ workers' = [workers EXCEPT ![w] = [@ EXCEPT !.pc = "hung"]]
    /\ UNCHANGED <<fixedVars, handled, loop, interpreter_data, guards, cache>>

\* display(result, nvim, data) shows the result under the guard of nvim, and
\* the thread ends
Display(w) ==
    /\ At(w, "display")
    /\ guards.nvim = {}
    /\ workers' = [workers EXCEPT ![w] = [@ EXCEPT !.pc = "done"]]
    /\ UNCHANGED <<fixedVars, handled, loop, interpreter_data, guards, cache>>

\* a step of the event loop
LoopStep ==
    \/ HandleRun
    \/ HandleClean
    \/ ReceiveClearReplMemory
    \/ HandleClearReplMemory
    \/ ClearContent
    \/ HandlePing
    \/ ReceiveInfo
    \/ HandleInfo
    \/ HandleUnknown

\* a step of the thread of workers[w]
WorkerStep(w) ==
    \/ FillDataLock(w)
    \/ FillDataUnlock(w)
    \/ LaunchInterpreter(w)
    \/ FetchCodeStage(w)
    \/ AddBoilerplateStage(w)
    \/ AddBoilerplateReplStage(w)
    \/ SaveCode(w)
    \/ BuildStage(w)
    \/ ExecuteStart(w)
    \/ ProcessExits(w)
    \/ ProcessHangs(w)
    \/ Display(w)

MainNext ==
    \/ HandleRun
    \/ HandleClean
    \/ ReceiveClearReplMemory
    \/ HandleClearReplMemory
    \/ ClearContent
    \/ HandlePing
    \/ ReceiveInfo
    \/ HandleInfo
    \/ HandleUnknown
    \/ \E w \in 1..MaxRuns : FillDataLock(w)
    \/ \E w \in 1..MaxRuns : FillDataUnlock(w)
    \/ \E w \in 1..MaxRuns : LaunchInterpreter(w)
    \/ \E w \in 1..MaxRuns : FetchCodeStage(w)
    \/ \E w \in 1..MaxRuns : AddBoilerplateStage(w)
    \/ \E w \in 1..MaxRuns : AddBoilerplateReplStage(w)
    \/ \E w \in 1..MaxRuns : SaveCode(w)
    \/ \E w \in 1..MaxRuns : BuildStage(w)
    \/ \E w \in 1..MaxRuns : ExecuteStart(w)
    \/ \E w \in 1..MaxRuns : ProcessExits(w)
    \/ \E w \in 1..MaxRuns : ProcessHangs(w)
    \/ \E w \in 1..MaxRuns : Display(w)

MainSpec == MainInit /\ [][MainNext]_vars

\* the event loop and every thread keep being scheduled
FairMainSpec ==
    /\ MainSpec
    /\ WF_vars(LoopStep)
    /\ \A w \in 1..MaxRuns : WF_vars(WorkerStep(w))

\* every variable has a value of its kind
MainTypeOK ==
    /\ handled \in 0..MaxEvents
    /\ loop \in {"recv", "info", "clear_owner", "clear_content", "cleared", "passed"}
    /\ Len(workers) <= MaxRuns
    /\ Cardinality(guards.nvim) <= 1
    /\ guards.interpreter_data = {}

-----------------------------------------------------------------------------
(* Properties of the event loop and its threads *)

\* the thread of workers[w] is inside execute: it waits in Command::output()
InExecute(w) == At(w, "executing") \/ At(w, "hung")

\* the guards the thread of workers[w] holds
GuardsHeldBy(w) == {g \in DOMAIN guards : w \in guards[g]}

\* C19: no thread of a run is inside execute while it holds the guard of the
\* InterpreterData or of nvim: every guard a run has taken is dropped before
\* its python3 process is started.
C19_NoGuardHeldInExecute ==
    \A w \in DOMAIN workers : InExecute(w) => GuardsHeldBy(w) = {}

\* C19 witness: a REPL-like run, which has taken the guard of nvim in
\* fill_data and the guard of the InterpreterData in add_boilerplate_repl, is
\* inside execute while the thread of another run holds the guard of nvim.
C19_Witness ==
    \E w, v \in DOMAIN workers :
        /\ InExecute(w)
        /\ ReplMode(w)
        /\ workers[w].seen # <<>>
        /\ GuardsHeldBy(w) = {}
        /\ GuardsHeldBy(v) = {"nvim"}

\* C18: a thread whose python3 process never exits stays in execute for good;
\* the event loop all the same receives and handles every later event, and
\* the thread of every other run whose process has exited displays its result
\* and ends.
C18_HungRunBlocksNobody ==
    /\ [][\A w \in DOMAIN workers : At(w, "hung") => workers'[w].pc = "hung"]_vars
    /\ \A n \in 0..(MaxEvents - 1) :
           (handled = n /\ \E w \in DOMAIN workers : At(w, "hung")) ~> (handled > n)
    /\ \A v \in 1..MaxRuns :
           (At(v, "display") /\ \E w \in DOMAIN workers : At(w, "hung")) ~> At(v, "done")

\* C18 witness: while the process of one run hangs, the event loop has
\* handled an event that came after and another run has displayed its result.
C18_Witness ==
    \E w, v \in DOMAIN workers :
        /\ At(w, "hung")
        /\ At(v, "done")
        /\ workers[v].result = Ok(<<"1", "\n">>)
        /\ w < v
        /\ handled = MaxEvents
        /\ loop = "recv"

\* the four stages of a run, in the order inter.run() goes through them
StageOrder == <<"fetch_code", "add_boilerplate", "build", "execute">>

\* q is the beginning of r
IsPrefix(q, r) == Len(q) <= Len(r) /\ \A i \in 1..Len(q) : q[i] = r[i]

\* the run of workers[w] is over: its thread is past select_and_run or has ended
RunOver(w) == workers[w].pc \in {"display", "done", "panicked"}

\* select_and_run has returned to the thread of workers[w], which is at
\* display or past it
Returned(w) == workers[w].pc \in {"display", "done"}

\* C16 (as claimed): within a run the stages are started in the order
\* fetch_code, add_boilerplate, build, execute, each at most once; when a
\* stage fails no later stage of the run is started, and the caller is
\* returned the error of the stage that failed.
C16_StagesInOrderAndErrorReturned ==
    \A w \in DOMAIN workers :
        /\ IsPrefix(workers[w].stages, StageOrder)
        /\ workers[w].failed # "" =>
               /\ Last(workers[w].stages) = workers[w].failed
               /\ RunOver(w) => (Returned(w) /\ IsErr(workers[w].result))

\* C17 (as claimed): when build fails to write the file at main_file_path, the
\* run ends with an error returned to the caller of select_and_run, so that
\* the thread comes to display with that error, and execute is not started.
C17_BuildFailureIsReturned ==
    \A w \in DOMAIN workers :
        workers[w].failed = "build" =>
            /\ Returned(w)
            /\ IsErr(workers[w].result)
            /\ \A i \in 1..Len(workers[w].stages) : workers[w].stages[i] # "execute"

\* the call add_boilerplate_repl injects to load the old variables, and the
\* one to save the new
LoadLine == LoadCall \o klepto_memo \o <<")">>
SaveLine == SaveCall \o klepto_memo \o <<")">>

\* the positions of line among lines
PositionsOf(line, lines) == {i \in 1..Len(lines) : lines[i] = line}

\* the lines of the user's code in the program of workers[w]
UserLines(w) == Lines(Unindent(<<"\n">> \o workers[w].data.current_bloc))

\* add_boilerplate_repl has run for workers[w]
Decided(w) == ReplMode(w) /\ workers[w].seen # <<>>

\* the program of workers[w] calls the load
InjectsLoad(w) == PositionsOf(LoadLine, Lines(workers[w].inter[1].code)) # {}

\* the program of workers[w] calls the load before the user's code and the
\* save after it
LoadsBeforeSavesAfter(w) ==
    LET program == Lines(workers[w].inter[1].code)
        user == UserLines(w)
    IN  \E l \in PositionsOf(LoadLine, program), s \in PositionsOf(SaveLine, program) :
            \A i \in 1..Len(user) :
                \E u \in PositionsOf(user[i], program) : l < u /\ u < s

\* the run of workers[w] behaves as a first run: it records the sentinel and
\* its program does not call the load
FirstRun(w) == workers[w].saves /\ ~InjectsLoad(w)

\* C13 (as claimed): whatever Run, Clean and ClearReplMemory events came, a
\* REPL-like run that finds work_dir with no REPL-like run since it was made
\* or last emptied records the sentinel and injects no load; a REPL-like run
\* that comes after the end of another on the same work_dir injects the load
\* before the user's code and the save after it.
C13_SentinelFollowsCacheLocation ==
    \A w \in DOMAIN workers :
        Decided(w) =>
            /\ workers[w].found = "none" => FirstRun(w)
            /\ workers[w].found = "ended" => LoadsBeforeSavesAfter(w)

ClearsOwner == loop = "clear_owner" /\ loop' = "clear_content"

ClearsContent == loop = "clear_content" /\ loop' = "cleared"

\* C20 (as claimed): when the handler of ClearReplMemory is through, the owner
\* and the content of the record are empty; its steps leave the pid of the
\* record, work_dir and the DataHolder of the event loop as they were; a
\* REPL-like run spawned after the event was handled, no other run being in
\* flight from the end of the handler on, behaves as a first run.
C20_ClearReplMemoryFrame ==
    /\ [][/\ ClearsContent =>
                 /\ interpreter_data'.owner = ""
                 /\ interpreter_data'.content = EmptyString
          /\ (ClearsOwner \/ ClearsContent) =>
                 /\ interpreter_data'.pid = interpreter_data.pid
                 /\ cache' = cache
                 /\ data' = data]_vars
    /\ [](\A w \in DOMAIN workers :
              (Decided(w) /\ workers[w].after_clear /\ workers[w].alone) => FirstRun(w))

\* the thread of workers[w] has started execute
Executing(w) == \E i \in 1..Len(workers[w].stages) : workers[w].stages[i] = "execute"

\* C21 (as claimed): however the threads of the runs interleave, two runs of
\* the same interpreter included, the program python3 reads at
\* main_file_path in a run's execute is the one the build of that run wrote
\* there: the build of no other run has replaced it in between.
C21_ExecutesOwnProgram ==
    \A w \in DOMAIN workers :
        (Executing(w) /\ workers[w].program # <<>>) =>
            workers[w].program = <<workers[w].inter[1].code>>

\* C22 (as claimed): however Run, Clean and ClearReplMemory events interleave,
\* the thread of no run ends without having displayed a result, a Clean
\* between new_with_level and build included, and every run whose python3
\* process exits comes to display and shows the output or an error.
C22_EveryRunIsDisplayed ==
    /\ [](\A w \in DOMAIN workers : ~At(w, "panicked"))
    /\ [](\A w \in DOMAIN workers :
              At(w, "done") => workers[w].result # NoResult)
    /\ \A w \in 1..MaxRuns :
           At(w, "spawned") ~> (At(w, "done") \/ At(w, "hung"))

\* the record is cleared, or it is an entry with an owner and a content
Complete(r) ==
    \/ r.owner = "" /\ r.content = EmptyString
    \/ r.owner # "" /\ r.content # EmptyString

\* the step is the one of workers[w] that takes the guard of the
\* InterpreterData: read_previous_code in add_boilerplate_repl, or save_code
TakesRecordGuard(w) ==
    /\ w \in DOMAIN workers
    /\ ReplMode(w)
    /\ workers[w].pc \in {"fetched", "saving"}
    /\ workers'[w].pc # workers[w].pc

\* C23 (as claimed): whenever the thread of a run takes the guard of the
\* InterpreterData, the record is either cleared, owner and content, or an
\* entry with an owner and a content: no run finds the clearing of
\* ClearReplMemory half done, nor an owner with an empty content.
C23_RecordNeverSeenHalfDone ==
    [][\A w \in 1..MaxRuns : TakesRecordGuard(w) => Complete(interpreter_data)]_vars

PassesOver == loop' = "passed" /\ handled' = handled + 1

\* C26: an event named otherwise than run, clean, clearrepl, info, ping is
\* Unknown; handling an Unknown or a Ping event spawns no thread and leaves
\* the InterpreterData, work_dir and the DataHolder of the event loop as they
\* were, and the loop is ready for the next event.
C26_UnknownAndPingPassedOver ==
    /\ [](\A event \in Events :
              Messages_from(event) = "Unknown"
                  <=> event \notin {"run", "clean", "clearrepl", "info", "ping"})
    /\ [][PassesOver =>
              /\ workers' = workers
              /\ interpreter_data' = interpreter_data
              /\ cache' = cache
              /\ data' = data]_vars
    /\ [](loop = "passed" /\ handled < MaxEvents => ENABLED LoopStep)

\* C26 witness: a Ping or Unknown event has been passed over while the thread
\* of a run was in flight, work_dir held a subdirectory and the
\* InterpreterData an entry; another event can come.
C26_Witness ==
    /\ loop = "passed"
    /\ handled < MaxEvents
    /\ cache.subdir
    /\ interpreter_data.owner # ""
    /\ \E w \in DOMAIN workers : InFlight(w)

\* the values the DataHolder of a run goes through in fill_data
ContextsOfARun ==
    {DataHolderNew,
     [DataHolderNew EXCEPT !.filetype = EditorFiletype, !.current_line = EditorLine],
     FilledData}

\* C25: the context of every run is made from a pristine copy: Run and Info
\* events leave the DataHolder of the event loop as DataHolder::new made it,
\* the thread of a run starts from that and every field of its context is
\* either pristine or what fill_data got for this run.
C25_ContextFromPristineCopy ==
    /\ data = DataHolderNew
    /\ \A w \in DOMAIN workers :
           /\ At(w, "spawned") => workers[w].data = DataHolderNew
           /\ workers[w].data \in ContextsOfARun

\* C25 witness: a run has filled its context and displayed its result, a
\* later run has just been spawned with a pristine context, and the
\* DataHolder of the event loop is pristine.
C25_Witness ==
    /\ data = DataHolderNew
    /\ handled = MaxEvents
    /\ \E w, v \in DOMAIN workers :
           /\ w < v
           /\ At(w, "done")
           /\ workers[w].data = FilledData
           /\ At(v, "spawned")
           /\ workers[v].data = DataHolderNew

====
